---- MODULE Spec2Model ----
(***************************************************************************)
(* SrimDB: an in-memory table store (DataDB) and the relational-algebra    *)
(* query evaluator over it (Query::execute, QueryResult, Condition,        *)
(* FunctionCall, Value).                                                   *)
(*                                                                         *)
(* Result<T, E> values are records tagged "Ok" / "Err"; a Rust panic       *)
(* (panic!, expect on None, slice index out of bounds) is the third        *)
(* outcome, tagged "Panic", and unwinds through every caller.              *)
(* Option<T> is the empty sequence (None) or a one-element sequence.       *)
(***************************************************************************)
EXTENDS Integers, Sequences, FiniteSets, TLC

(***************************************************************************)
(* Bounds of the model.                                                    *)
(***************************************************************************)
\* Largest number of rows stored in the whole database (guard of AddRow).
MaxRows == 2
\* Width in bits of Value::Unsigned / Value::Signed (u128 / i128 in the
\* source); saturation and the reinterpreting casts keep their shape.
IntBits == 4

(***************************************************************************)
(* Result, Option                                                          *)
(***************************************************************************)
Ok(x) == [tag |-> "Ok", val |-> x]
Err(e) == [tag |-> "Err", err |-> e]
Panic(m) == [tag |-> "Panic", msg |-> m]
IsOk(r) == r.tag = "Ok"
IsErr(r) == r.tag = "Err"
IsPanic(r) == r.tag = "Panic"

None == << >>
Some(x) == << x >>

\* enum QueryError / TypeError / ApplyError
IncompatibleTypes == [error |-> "IncompatibleTypes"]
DifferentFields == [error |-> "DifferentFields"]
NotBoolean == [error |-> "TypeError", type |-> "NotBoolean"]
NotEnoughArguments(n) == [error |-> "NotEnoughArguments", n |-> n]
NoSuchTable(name) == [error |-> "NoSuchTable", name |-> name]
NoSuchField(qf) == [error |-> "NoSuchField", qf |-> qf]
AmbiguousField(qf) == [error |-> "AmbiguousField", qf |-> qf]
AddCannotModify(name) == [error |-> "AddCannotModify", name |-> name]

(***************************************************************************)
(* Value, ValueKind (value.rs)                                             *)
(* A value is [kind, v]; the payload v is a BOOLEAN, an integer, a string, *)
(* a sequence of bytes, or for Real a record [nan, n]: either NaN or the   *)
(* number n.  Only integral reals are modelled, which at IntBits <= 53 is  *)
(* every real the integer casts and their sums can produce.                *)
(***************************************************************************)
UMax == 2 ^ IntBits - 1
IMax == 2 ^ (IntBits - 1) - 1
IMin == 0 - 2 ^ (IntBits - 1)

Boolean(b) == [kind |-> "Boolean", v |-> b]
Unsigned(n) == [kind |-> "Unsigned", v |-> n]
Signed(n) == [kind |-> "Signed", v |-> n]
Real(n) == [kind |-> "Real", v |-> [nan |-> FALSE, n |-> n]]
RealNaN == [kind |-> "Real", v |-> [nan |-> TRUE, n |-> 0]]
Text(s) == [kind |-> "Text", v |-> s]
Blob(bs) == [kind |-> "Blob", v |-> bs]

kind(value) == value.kind

\* #[derive(PartialEq)] on Value: same variant and equal payloads, the f64
\* payload compared as IEEE 754 does, so that NaN differs from itself.
ValueEq(x, y) ==
    /\ x.kind = y.kind
    /\ IF x.kind = "Real"
       THEN ~x.v.nan /\ ~y.v.nan /\ x.v.n = y.v.n
       ELSE x.v = y.v

\* more_generic taking Unsigned for the more general integer kind.
more_generic_unsigned(self, other) ==
    IF self = other THEN Some(self)
    ELSE IF {self, other} = {"Unsigned", "Signed"} THEN Some("Unsigned")
    ELSE IF {self, other} \in {{"Unsigned", "Real"}, {"Signed", "Real"}} THEN Some("Real")
    ELSE None

more_generic(self, other) ==
    IF self = other THEN Some(self)
    ELSE CASE self = "Unsigned" ->
                (CASE other = "Signed" -> Some("Signed")
                   [] other = "Real" -> Some("Real")
                   [] OTHER -> None)
           [] self = "Signed" ->
                (CASE other = "Unsigned" -> Some("Signed")
                   [] other = "Real" -> Some("Real")
                   [] OTHER -> None)
           [] self = "Real" ->
                (CASE other = "Unsigned" -> Some("Real")
                   [] other = "Signed" -> Some("Real")
                   [] OTHER -> None)
           [] OTHER -> None

\* `v as u128` and `v as i128` between the two integer types: the bit
\* pattern is kept.
AsUnsigned(n) == n % (2 ^ IntBits)
AsSigned(n) == IF n > IMax THEN n - 2 ^ IntBits ELSE n
\* `v as i128` of an f64: truncation toward zero, clamped to the range,
\* NaN to 0.
RealAsSigned(r) ==
    IF r.nan THEN 0
    ELSE IF r.n > IMax THEN IMax
    ELSE IF r.n < IMin THEN IMin
    ELSE r.n

cast_to(self, to) ==
    IF kind(self) = to THEN Ok(self)
    ELSE CASE to = "Boolean" -> Err(IncompatibleTypes)
           [] to = "Unsigned" ->
                (IF self.kind = "Signed"
                 THEN Ok(Unsigned(AsUnsigned(self.v)))
                 ELSE Err(IncompatibleTypes))
           [] to = "Signed" ->
                (CASE self.kind = "Unsigned" -> Ok(Signed(AsSigned(self.v)))
                   [] self.kind = "Real" -> Ok(Signed(RealAsSigned(self.v)))
                   [] OTHER -> Err(IncompatibleTypes))
           [] to = "Real" ->
                (CASE self.kind = "Signed" -> Ok(Real(self.v))
                   [] self.kind = "Unsigned" -> Ok(Real(self.v))
                   [] OTHER -> Err(IncompatibleTypes))
           [] OTHER -> Err(IncompatibleTypes)

\* u128::saturating_add, i128::saturating_add, f64::add
u_saturating_add(x, y) == IF x + y > UMax THEN UMax ELSE x + y
i_saturating_add(x, y) ==
    IF x + y > IMax THEN IMax
    ELSE IF x + y < IMin THEN IMin
    ELSE x + y
f64_add(x, y) ==
    IF x.nan \/ y.nan THEN [nan |-> TRUE, n |-> 0]
    ELSE [nan |-> FALSE, n |-> x.n + y.n]

\* unwrap_binop! and the Text / Blob arms of binop_add: the operation of
\* result_kind on the payloads of the two operands cast to it.
unwrap_binop(result_kind, v1, v2) ==
    CASE result_kind = "Boolean" -> Boolean(v1 \/ v2)
      [] result_kind = "Unsigned" -> Unsigned(u_saturating_add(v1, v2))
      [] result_kind = "Signed" -> Signed(i_saturating_add(v1, v2))
      [] result_kind = "Real" -> [kind |-> "Real", v |-> f64_add(v1, v2)]
      [] result_kind = "Text" -> Text(v1 \o v2)
      [] result_kind = "Blob" -> Blob(v1 \o v2)

binop_add(self, other) ==
    LET g == more_generic(kind(self), kind(other)) IN
    IF g = None THEN Err(IncompatibleTypes)
    ELSE LET c1 == cast_to(self, g[1])
             c2 == cast_to(other, g[1])
         IN IF ~IsOk(c1) THEN c1
            ELSE IF ~IsOk(c2) THEN c2
            ELSE Ok(unwrap_binop(g[1], c1.val.v, c2.val.v))

(***************************************************************************)
(* Row (table.rs): a row is the sequence of its values.                    *)
(***************************************************************************)
\* #[derive(PartialEq)] on Row: Vec<Value> equality.
RowEq(r1, r2) ==
    /\ Len(r1) = Len(r2)
    /\ \A i \in 1..Len(r1) : ValueEq(r1[i], r2[i])

\* Vec<Row>::contains
contains(rows, row) == \E i \in 1..Len(rows) : RowEq(rows[i], row)

\* Row::pick_columns: indexing past the end of the row panics.
pick_columns(row, columns) ==
    IF \E k \in 1..Len(columns) : columns[k] > Len(row)
    THEN Panic("index out of bounds")
    ELSE Ok([k \in 1..Len(columns) |-> row[columns[k]]])

(***************************************************************************)
(* Function, FunctionCall, Argument (function.rs) and the built-in         *)
(* functions (builtin_functions.rs)                                        *)
(***************************************************************************)
ArgFunctionCall(fc) == [arg |-> "FunctionCall", fc |-> fc]
ArgValue(v) == [arg |-> "Value", value |-> v]
ArgQueryField(qf) == [arg |-> "QueryField", qf |-> qf]

\* FunctionCall::new
FunctionCall(target, arguments) == [target |-> target, arguments |-> arguments]

\* strict_eq comparing integers by their number, whatever their kind.
f_strict_eq_coercing(values) ==
    IF Len(values) < 2 THEN Ok(Boolean(TRUE))
    ELSE LET reference == values[1] IN
         IF \E i \in 2..Len(values) :
               ~(\/ ValueEq(values[i], reference)
                 \/ /\ values[i].kind \in {"Unsigned", "Signed"}
                    /\ reference.kind \in {"Unsigned", "Signed"}
                    /\ values[i].v = reference.v)
         THEN Ok(Boolean(FALSE))
         ELSE Ok(Boolean(TRUE))

f_strict_eq(values) ==
    IF Len(values) < 2 THEN Ok(Boolean(TRUE))
    ELSE LET reference == values[1] IN
         IF \E i \in 2..Len(values) : ~ValueEq(values[i], reference)
         THEN Ok(Boolean(FALSE))
         ELSE Ok(Boolean(TRUE))

\* add folding from the right.
f_add_right(values) ==
    IF Len(values) < 1 THEN Err(NotEnoughArguments(1))
    ELSE LET RECURSIVE loop(_)
             loop(i) ==
                 IF i = Len(values) THEN Ok(values[i])
                 ELSE LET r == loop(i + 1) IN
                      IF IsOk(r) THEN binop_add(values[i], r.val) ELSE r
         IN loop(1)

f_add(values) ==
    IF Len(values) < 1 THEN Err(NotEnoughArguments(1))
    ELSE LET RECURSIVE loop(_, _)
             loop(i, acc) ==
                 IF i > Len(values) THEN Ok(acc)
                 ELSE LET r == binop_add(acc, values[i]) IN
                      IF IsOk(r) THEN loop(i + 1, r.val) ELSE r
         IN loop(2, values[1])

\* builtin_functions::FUNCTIONS, as DataDB::new registers it.
FUNCTIONS ==
    [name \in {"strict_eq", "add"} |-> [variant |-> "Native", function |-> name]]

\* NativeFunction::call
NativeCall(nf, arguments) ==
    CASE nf = "strict_eq" -> f_strict_eq(arguments)
      [] nf = "add" -> f_add(arguments)

\* Function::call
call(self, arguments) ==
    IF self.variant = "Native" THEN NativeCall(self.function, arguments)
    ELSE Panic("not yet implemented")

(***************************************************************************)
(* QueryField and field resolution (query.rs)                              *)
(***************************************************************************)
\* QueryField::new, QueryField::from_table
QueryField(field) == [table |-> None, field |-> field]
from_table(qf, table) == [qf EXCEPT !.table = Some(table)]

\* QueryResult::new
QueryResult(fields, rows) == [fields |-> fields, rows |-> rows]

\* QueryResult::field_names
field_names(self) == [i \in 1..Len(self.fields) |-> self.fields[i].field]

\* QueryResult::match_field: the matching column indices, ascending
\* (columns are numbered from 1 here, from 0 in the source).
match_field(self, qf) ==
    LET RECURSIVE loop(_, _)
        loop(i, result) ==
            IF i > Len(self.fields) THEN result
            ELSE LET field == self.fields[i] IN
                 IF field.field = qf.field
                    /\ (qf.table = None \/ field.table = qf.table)
                 THEN loop(i + 1, Append(result, i))
                 ELSE loop(i + 1, result)
    IN loop(1, << >>)

\* The closures handed to resolve_args / Condition::test.  A resolver is
\* NoRowResolver (Query::execute, FromFunctionCall: it panics) or
\* RowResolver (QueryResult::filter: it looks the field up in one row).
NoRowResolver == [resolver |-> "FromFunctionCall"]
RowResolver(fields, row) == [resolver |-> "filter", fields |-> fields, row |-> row]

Resolve(resolve, qf) ==
    IF resolve.resolver = "FromFunctionCall"
    THEN Panic("FromFunctionCall references a field")
    ELSE LET matching == match_field(QueryResult(resolve.fields, << >>), qf) IN
         IF Len(matching) = 0 THEN Err(NoSuchField(qf))
         ELSE IF Len(matching) > 1 THEN Err(AmbiguousField(qf))
         ELSE IF matching[1] > Len(resolve.row) THEN Panic("index out of bounds")
         ELSE Ok(resolve.row[matching[1]])

RECURSIVE resolve_args(_, _)
\* resolve_args that leaves nested calls as they are.
resolve_args_shallow(self, resolve) ==
    LET RECURSIVE loop(_, _)
        loop(i, new_args) ==
            IF i > Len(self.arguments)
            THEN Ok(FunctionCall(self.target, new_args))
            ELSE LET arg == self.arguments[i]
                     r == CASE arg.arg = "FunctionCall" -> Ok(arg)
                            [] arg.arg = "Value" -> Ok(ArgValue(arg.value))
                            [] arg.arg = "QueryField" ->
                                 (LET s == Resolve(resolve, arg.qf) IN
                                  IF IsOk(s) THEN Ok(ArgValue(s.val)) ELSE s)
                 IN IF IsOk(r) THEN loop(i + 1, Append(new_args, r.val)) ELSE r
    IN loop(1, << >>)

resolve_args(self, resolve) ==
    LET RECURSIVE loop(_, _)
        loop(i, new_args) ==
            IF i > Len(self.arguments)
            THEN Ok(FunctionCall(self.target, new_args))
            ELSE LET arg == self.arguments[i]
                     r == CASE arg.arg = "FunctionCall" ->
                                 (LET s == resolve_args(arg.fc, resolve) IN
                                  IF IsOk(s) THEN Ok(ArgFunctionCall(s.val)) ELSE s)
                            [] arg.arg = "Value" -> Ok(ArgValue(arg.value))
                            [] arg.arg = "QueryField" ->
                                 (LET s == Resolve(resolve, arg.qf) IN
                                  IF IsOk(s) THEN Ok(ArgValue(s.val)) ELSE s)
                 IN IF IsOk(r) THEN loop(i + 1, Append(new_args, r.val)) ELSE r
    IN loop(1, << >>)

RECURSIVE apply(_, _)
apply(self, function_dict) ==
    LET RECURSIVE loop(_, _)
        loop(i, args) ==
            IF i > Len(self.arguments)
            THEN IF self.target \in DOMAIN function_dict
                 THEN call(function_dict[self.target], args)
                 ELSE Panic("No function named")
            ELSE LET arg == self.arguments[i]
                     r == CASE arg.arg = "Value" -> Ok(arg.value)
                            [] arg.arg = "FunctionCall" -> apply(arg.fc, function_dict)
                            [] OTHER -> Panic("Applying with unresolved query fields")
                 IN IF IsOk(r) THEN loop(i + 1, Append(args, r.val)) ELSE r
    IN loop(1, << >>)

(***************************************************************************)
(* Condition (query.rs)                                                    *)
(***************************************************************************)
CondValue(v) == [cond |-> "Value", value |-> v]
CondQueryField(qf) == [cond |-> "QueryField", qf |-> qf]
CondFunctionCall(fc) == [cond |-> "FunctionCall", fc |-> fc]

\* Condition::Value(v).test taking every non-Boolean for false.
test_value_lenient(v) == IF v.kind = "Boolean" THEN Ok(v.v) ELSE Ok(FALSE)

\* Condition::Value(v).test
test_value(v) == IF v.kind = "Boolean" THEN Ok(v.v) ELSE Err(NotBoolean)

\* Condition::test
test(self, function_dict, resolve) ==
    CASE self.cond = "Value" -> test_value(self.value)
      [] self.cond = "QueryField" ->
           (LET r == Resolve(resolve, self.qf) IN
            IF IsOk(r) THEN test_value(r.val) ELSE r)
      [] self.cond = "FunctionCall" ->
           (LET r == resolve_args(self.fc, resolve) IN
            IF ~IsOk(r) THEN r
            ELSE LET value == apply(r.val, function_dict) IN
                 IF IsOk(value) THEN test_value(value.val) ELSE value)

(***************************************************************************)
(* Table, TableField (table.rs, field.rs)                                  *)
(***************************************************************************)
Integer(size, signed) == [kind |-> "Integer", size |-> size, signed |-> signed]
FieldKindReal == [kind |-> "Real"]
FieldKindText == [kind |-> "Text"]

\* TableField::new
TableField(name, fieldkind) == [name |-> name, kind |-> fieldkind]

\* Table::new: every field is a key field.
Table(name, fields) ==
    [name |-> name, fields |-> fields,
     key_field_mask |-> [i \in 1..Len(fields) |-> TRUE]]

(***************************************************************************)
(* DataDB (lib.rs).  A database is [tables, table_rows, functions]:        *)
(* tables is the Vec<Table>, table_rows the HashMap from table name to its *)
(* rows (a function whose domain is the set of keys), functions the        *)
(* registry.                                                               *)
(***************************************************************************)
\* DataDB::new
EmptyMap == [k \in {} |-> << >>]
DataDBNew == [tables |-> << >>, table_rows |-> EmptyMap, functions |-> FUNCTIONS]

function_dict(self) == self.functions

\* DataDB::table_index: the first table of that name.
table_index(self, name) ==
    IF \E i \in 1..Len(self.tables) : self.tables[i].name = name
    THEN Some(CHOOSE i \in 1..Len(self.tables) :
                 /\ self.tables[i].name = name
                 /\ \A j \in 1..(i - 1) : self.tables[j].name # name)
    ELSE None

\* DataDB::table / table_by_index
table(self, name) ==
    LET i == table_index(self, name) IN
    IF i = None THEN None ELSE Some(self.tables[i[1]])

\* DataDB::all_rows
all_rows(self, name) ==
    IF name \in DOMAIN self.table_rows THEN Some(self.table_rows[name]) ELSE None

\* HashMap::insert, HashMap::remove
MapInsert(map, key, value) ==
    [k \in DOMAIN map \cup {key} |-> IF k = key THEN value ELSE map[k]]
MapRemove(map, key) == [k \in DOMAIN map \ {key} |-> map[k]]

\* Vec::remove
VecRemove(vec, i) ==
    [k \in 1..(Len(vec) - 1) |-> IF k < i THEN vec[k] ELSE vec[k + 1]]

\* create_table that empties a table created again with its own schema.
create_table_reset(self, t) ==
    LET i == table_index(self, t.name) IN
    IF i # None /\ self.tables[i[1]] # t
    THEN [db |-> self, ret |-> Err(AddCannotModify(t.name))]
    ELSE [db |-> [self EXCEPT !.tables = IF i # None THEN @ ELSE Append(@, t),
                              !.table_rows = MapInsert(@, t.name, << >>)],
          ret |-> Ok(<< >>)]

\* The mutating methods return the database they leave and their result.
create_table(self, t) ==
    LET i == table_index(self, t.name) IN
    IF i # None
    THEN IF self.tables[i[1]] # t
         THEN [db |-> self, ret |-> Err(AddCannotModify(t.name))]
         ELSE [db |-> self, ret |-> Ok(<< >>)]
    ELSE [db |-> [self EXCEPT !.tables = Append(@, t),
                              !.table_rows = MapInsert(@, t.name, << >>)],
          ret |-> Ok(<< >>)]

\* drop_table that leaves the rows of the table in the row map.
drop_table_keeps_rows(self, name) ==
    LET i == table_index(self, name) IN
    IF i # None
    THEN [db |-> [self EXCEPT !.tables = VecRemove(@, i[1])], ret |-> Ok(<< >>)]
    ELSE [db |-> self, ret |-> Err(NoSuchTable(name))]

drop_table(self, name) ==
    LET i == table_index(self, name) IN
    IF i # None
    THEN [db |-> [self EXCEPT !.tables = VecRemove(@, i[1]),
                              !.table_rows = MapRemove(@, name)],
          ret |-> Ok(<< >>)]
    ELSE [db |-> self, ret |-> Err(NoSuchTable(name))]

\* add_row inserting at the front.
add_row_front(self, name, row) ==
    IF name \in DOMAIN self.table_rows
    THEN [db |-> [self EXCEPT !.table_rows[name] = << row >> \o @],
          ret |-> Ok(<< >>)]
    ELSE [db |-> self, ret |-> Err(NoSuchTable(name))]

add_row(self, name, row) ==
    IF name \in DOMAIN self.table_rows
    THEN [db |-> [self EXCEPT !.table_rows[name] = Append(@, row)],
          ret |-> Ok(<< >>)]
    ELSE [db |-> self, ret |-> Err(NoSuchTable(name))]

(***************************************************************************)
(* QueryResult (query.rs): [fields, rows]                                  *)
(***************************************************************************)
from_db_table(db, table_name) ==
    LET t == table(db, table_name) IN
    IF t # None
    THEN LET fields == [i \in 1..Len(t[1].fields) |->
                           from_table(QueryField(t[1].fields[i].name), table_name)]
             rows == all_rows(db, table_name)
         IN IF rows = None
            THEN Panic("unwrap on None")
            ELSE Ok(QueryResult(fields, rows[1]))
    ELSE Err(NoSuchTable(table_name))

\* union with the operands' rows in the wrong order.
union_swapped(self, other) ==
    IF field_names(self) # field_names(other) THEN Err(DifferentFields)
    ELSE Ok(QueryResult(self.fields, other.rows \o self.rows))

union(self, other) ==
    IF field_names(self) # field_names(other) THEN Err(DifferentFields)
    ELSE Ok(QueryResult(self.fields, self.rows \o other.rows))

\* intersection testing membership in its own rows.
intersection_self(self, other) ==
    IF field_names(self) # field_names(other) THEN Err(DifferentFields)
    ELSE LET RECURSIVE loop(_, _)
             loop(i, rows) ==
                 IF i > Len(self.rows) THEN rows
                 ELSE LET row == self.rows[i] IN
                      IF contains(self.rows, row)
                      THEN loop(i + 1, Append(rows, row))
                      ELSE loop(i + 1, rows)
         IN Ok(QueryResult(self.fields, loop(1, << >>)))

intersection(self, other) ==
    IF field_names(self) # field_names(other) THEN Err(DifferentFields)
    ELSE LET RECURSIVE loop(_, _)
             loop(i, rows) ==
                 IF i > Len(self.rows) THEN rows
                 ELSE LET row == self.rows[i] IN
                      IF contains(other.rows, row)
                      THEN loop(i + 1, Append(rows, row))
                      ELSE loop(i + 1, rows)
         IN Ok(QueryResult(self.fields, loop(1, << >>)))

\* difference without the negation (the body of intersection).
difference_unnegated(self, other) ==
    IF field_names(self) # field_names(other) THEN Err(DifferentFields)
    ELSE LET RECURSIVE loop(_, _)
             loop(i, rows) ==
                 IF i > Len(self.rows) THEN rows
                 ELSE LET row == self.rows[i] IN
                      IF contains(other.rows, row)
                      THEN loop(i + 1, Append(rows, row))
                      ELSE loop(i + 1, rows)
         IN Ok(QueryResult(self.fields, loop(1, << >>)))

difference(self, other) ==
    IF field_names(self) # field_names(other) THEN Err(DifferentFields)
    ELSE LET RECURSIVE loop(_, _)
             loop(i, rows) ==
                 IF i > Len(self.rows) THEN rows
                 ELSE LET row == self.rows[i] IN
                      IF ~contains(other.rows, row)
                      THEN loop(i + 1, Append(rows, row))
                      ELSE loop(i + 1, rows)
         IN Ok(QueryResult(self.fields, loop(1, << >>)))

\* distinct without the negation: nothing is ever pushed.
distinct_unnegated(self) ==
    LET RECURSIVE loop(_, _)
        loop(i, rows) ==
            IF i > Len(self.rows) THEN rows
            ELSE LET row == self.rows[i] IN
                 IF contains(rows, row)
                 THEN loop(i + 1, Append(rows, row))
                 ELSE loop(i + 1, rows)
    IN Ok(QueryResult(self.fields, loop(1, << >>)))

distinct(self) ==
    LET RECURSIVE loop(_, _)
        loop(i, rows) ==
            IF i > Len(self.rows) THEN rows
            ELSE LET row == self.rows[i] IN
                 IF ~contains(rows, row)
                 THEN loop(i + 1, Append(rows, row))
                 ELSE loop(i + 1, rows)
    IN Ok(QueryResult(self.fields, loop(1, << >>)))

project(self, fields) ==
    LET RECURSIVE loop(_, _, _)
        loop(i, result_fields, result_columns) ==
            IF i > Len(fields)
            THEN LET picked == [r \in 1..Len(self.rows) |->
                                   pick_columns(self.rows[r], result_columns)]
                 IN IF \E r \in 1..Len(self.rows) : IsPanic(picked[r])
                    THEN Panic("index out of bounds")
                    ELSE Ok(QueryResult(result_fields,
                                        [r \in 1..Len(self.rows) |-> picked[r].val]))
            ELSE LET field == fields[i]
                     matching == match_field(self, field)
                 IN IF Len(matching) = 0 THEN Err(NoSuchField(field))
                    ELSE IF Len(matching) > 1 THEN Err(AmbiguousField(field))
                    ELSE loop(i + 1, Append(result_fields, field),
                              Append(result_columns, matching[1]))
    IN loop(1, << >>, << >>)

\* filter that drops the rows on which testing the condition fails.
filter_lenient(self, fd, condition) ==
    LET RECURSIVE loop(_, _)
        loop(i, rows) ==
            IF i > Len(self.rows) THEN Ok(QueryResult(self.fields, rows))
            ELSE LET row == self.rows[i]
                     ok == test(condition, fd, RowResolver(self.fields, row))
                 IN IF IsOk(ok) /\ ok.val THEN loop(i + 1, Append(rows, row))
                    ELSE loop(i + 1, rows)
    IN loop(1, << >>)

\* filter that stops at the first row failing the condition.
filter_stops(self, fd, condition) ==
    LET RECURSIVE loop(_, _)
        loop(i, rows) ==
            IF i > Len(self.rows) THEN Ok(QueryResult(self.fields, rows))
            ELSE LET row == self.rows[i]
                     ok == test(condition, fd, RowResolver(self.fields, row))
                 IN IF ~IsOk(ok) THEN ok
                    ELSE IF ok.val THEN loop(i + 1, Append(rows, row))
                    ELSE Ok(QueryResult(self.fields, rows))
    IN loop(1, << >>)

filter(self, fd, condition) ==
    LET RECURSIVE loop(_, _)
        loop(i, rows) ==
            IF i > Len(self.rows) THEN Ok(QueryResult(self.fields, rows))
            ELSE LET row == self.rows[i]
                     ok == test(condition, fd, RowResolver(self.fields, row))
                 IN IF ~IsOk(ok) THEN ok
                    ELSE IF ok.val THEN loop(i + 1, Append(rows, row))
                    ELSE loop(i + 1, rows)
    IN loop(1, << >>)

\* rename that keeps the table qualifier of the renamed column.
rename_qualified(self, from, to) ==
    LET matching == match_field(self, from) IN
    IF Len(matching) = 0 THEN Err(NoSuchField(from))
    ELSE IF Len(matching) > 1 THEN Err(AmbiguousField(from))
    ELSE Ok(QueryResult([self.fields EXCEPT ![matching[1]].field = to], self.rows))

rename(self, from, to) ==
    LET matching == match_field(self, from) IN
    IF Len(matching) = 0 THEN Err(NoSuchField(from))
    ELSE IF Len(matching) > 1 THEN Err(AmbiguousField(from))
    ELSE Ok(QueryResult([self.fields EXCEPT ![matching[1]] = QueryField(to)],
                        self.rows))

(***************************************************************************)
(* Query (query.rs)                                                        *)
(***************************************************************************)
QEmpty(fields) == [type |-> "Empty", fields |-> fields]
QTable(name) == [type |-> "Table", name |-> name]
QFromValue(field, value) == [type |-> "FromValue", field |-> field, value |-> value]
QFromFunctionCall(field, fc) == [type |-> "FromFunctionCall", field |-> field, fc |-> fc]
QUnion(q1, q2) == [type |-> "Union", q1 |-> q1, q2 |-> q2]
QIntersection(q1, q2) == [type |-> "Intersection", q1 |-> q1, q2 |-> q2]
QDifference(q1, q2) == [type |-> "Difference", q1 |-> q1, q2 |-> q2]
QDistinct(subquery) == [type |-> "Distinct", subquery |-> subquery]
QProject(fields, subquery) == [type |-> "Project", fields |-> fields, subquery |-> subquery]
QSelect(condition, subquery) == [type |-> "Select", condition |-> condition, subquery |-> subquery]
QRename(from, to, subquery) == [type |-> "Rename", from |-> from, to |-> to, subquery |-> subquery]

IsBinary(q) == q.type \in {"Union", "Intersection", "Difference"}
IsUnary(q) == q.type \in {"Distinct", "Project", "Select", "Rename"}

RECURSIVE execute(_, _)
execute(self, db) ==
    CASE self.type = "Empty" ->
           Ok(QueryResult([i \in 1..Len(self.fields) |-> QueryField(self.fields[i])],
                          << >>))
      [] self.type = "Table" -> from_db_table(db, self.name)
      [] self.type = "FromValue" ->
           Ok(QueryResult(<< QueryField(self.field.name) >>, << << self.value >> >>))
      [] self.type = "FromFunctionCall" ->
           (LET fd == function_dict(db)
                r == resolve_args(self.fc, NoRowResolver)
            IN IF ~IsOk(r) THEN r
               ELSE LET value == apply(r.val, fd) IN
                    IF ~IsOk(value) THEN value
                    ELSE Ok(QueryResult(<< QueryField(self.field.name) >>,
                                        << << value.val >> >>)))
      [] IsBinary(self) ->
           (LET v1 == execute(self.q1, db) IN
            IF ~IsOk(v1) THEN v1
            ELSE LET v2 == execute(self.q2, db) IN
                 IF ~IsOk(v2) THEN v2
                 ELSE CASE self.type = "Union" -> union(v1.val, v2.val)
                        [] self.type = "Intersection" -> intersection(v1.val, v2.val)
                        [] self.type = "Difference" -> difference(v1.val, v2.val))
      [] IsUnary(self) ->
           (LET v == execute(self.subquery, db) IN
            IF ~IsOk(v) THEN v
            ELSE CASE self.type = "Distinct" -> distinct(v.val)
                   [] self.type = "Project" -> project(v.val, self.fields)
                   [] self.type = "Select" ->
                        filter(v.val, function_dict(db), self.condition)
                   [] self.type = "Rename" -> rename(v.val, self.from, self.to))

(***************************************************************************)
(* Inputs of the API calls                                                 *)
(***************************************************************************)
S1 == Signed(1)
U1 == Unsigned(1)
VTrue == Boolean(TRUE)
VFalse == Boolean(FALSE)

\* Arguments of Delta::CreateTable: two schemas for "T" and one for "U".
T_ab == Table("T", << TableField("a", Integer("N64", FALSE)), TableField("b", FieldKindText) >>)
T_a == Table("T", << TableField("a", FieldKindReal) >>)
U_a == Table("U", << TableField("a", FieldKindText) >>)
TableInputs == {T_ab, T_a, U_a}
TableNames == {"T", "U"}

\* Arguments of Delta::AddRow (the row is stored whatever its length).
RowInputs == { << S1 >>, << RealNaN >>, << VTrue, S1 >>, << VFalse, S1 >> }

\* Field references.
qa == QueryField("a")
qb == QueryField("b")
qc == QueryField("c")
qTa == from_table(qa, "T")
qUa == from_table(qa, "U")

Fa == TableField("a", Integer("N32", TRUE))

\* Function calls without field references (FromFunctionCall) ...
ClosedCalls ==
    { FunctionCall("add", << ArgValue(Signed(2)), ArgValue(Signed(3)), ArgValue(Signed(0 - 4)) >>),
      FunctionCall("add", << >>),
      FunctionCall("add", << ArgValue(S1), ArgValue(Text("x")) >>),
      FunctionCall("add", << ArgFunctionCall(FunctionCall("add", << ArgValue(U1) >>)), ArgValue(S1) >>),
      FunctionCall("strict_eq", << ArgValue(U1), ArgValue(S1) >>),
      FunctionCall("strict_eq", << ArgValue(S1), ArgValue(S1) >>),
      FunctionCall("sub", << ArgValue(S1) >>) }
\* ... and with them.
OpenCalls ==
    { FunctionCall("strict_eq", << ArgQueryField(qa), ArgValue(S1) >>),
      FunctionCall("strict_eq", << ArgQueryField(qb), ArgValue(S1) >>),
      FunctionCall("add", << ArgQueryField(qa), ArgValue(S1) >>),
      FunctionCall("add", << ArgFunctionCall(FunctionCall("add", << ArgQueryField(qb) >>)),
                             ArgValue(VTrue) >>) }

ConditionInputs ==
    { CondValue(VTrue), CondValue(VFalse), CondValue(S1),
      CondQueryField(qa), CondQueryField(qb), CondQueryField(qc) }
    \cup { CondFunctionCall(fc) : fc \in OpenCalls }
    \cup { CondFunctionCall(FunctionCall("strict_eq", << ArgValue(S1), ArgValue(S1) >>)) }
    \cup { CondFunctionCall(FunctionCall("add", << ArgQueryField(qa), ArgValue(VTrue) >>)) }

ProjectInputs ==
    { << >>, << qa >>, << qb, qa >>, << qTa, qa >>, << qUa >>, << qa, qc >>, << qc, qa >> }

\* Queries asked of the store with both tables.
StoreQueries ==
    { QTable("T"), QTable("U"), QUnion(QTable("T"), QTable("U")),
      QProject(<< qa >>, QTable("U")), QSelect(CondValue(VTrue), QTable("T")) }

\* Operands of the unary and binary operators.
Operands ==
    { QEmpty(<< "a" >>), QEmpty(<< "a", "b" >>), QEmpty(<< "a", "a" >>),
      QTable("T"), QTable("U"),
      QFromValue(Fa, S1), QFromValue(Fa, RealNaN), QFromValue(Fa, VTrue),
      QFromFunctionCall(Fa, FunctionCall("add", << >>)) }

QueryInputs ==
    Operands
    \cup { QFromFunctionCall(Fa, fc) : fc \in ClosedCalls \cup OpenCalls }
    \cup { QUnion(q1, q2) : q1 \in Operands, q2 \in Operands }
    \cup { QIntersection(q1, q2) : q1 \in Operands, q2 \in Operands }
    \cup { QDifference(q1, q2) : q1 \in Operands, q2 \in Operands }
    \cup { QDistinct(q) : q \in Operands }
    \cup { QDistinct(QDistinct(q)) : q \in Operands }
    \cup { QDistinct(QUnion(QTable("T"), q)) : q \in {QTable("T"), QFromValue(Fa, S1)} }
    \cup { QDistinct(QDistinct(QUnion(QTable("T"), QFromValue(Fa, S1)))) }
    \cup { QIntersection(QUnion(QTable("T"), QFromValue(Fa, S1)), q) :
               q \in {QTable("T"), QFromValue(Fa, S1)} }
    \cup { QDifference(QUnion(QTable("T"), QFromValue(Fa, S1)), q) :
               q \in {QTable("T"), QFromValue(Fa, S1)} }
    \cup { QProject(fields, q) : fields \in ProjectInputs, q \in Operands }
    \cup { QSelect(c, q) : c \in ConditionInputs, q \in Operands }
    \cup { QRename(from, to, q) : from \in {qa, qc, qTa}, to \in {"c", "b"}, q \in Operands }

(***************************************************************************)
(* The state machine: SrimDB and its caller                                *)
(***************************************************************************)
VARIABLES
    tables,      \* DataDB::tables
    table_rows,  \* DataDB::table_rows
    functions,   \* DataDB::functions
    op,          \* the API call whose result the caller holds, or NoOp
    out,         \* that result
    added        \* history: per existing table, the Table it was created from
                 \* and the rows added since

vars == << tables, table_rows, functions, op, out, added >>

\* SrimDB::data_db
data_db == [tables |-> tables, table_rows |-> table_rows, functions |-> functions]

NoOp == [op |-> "None"]
NoOut == [tag |-> "None"]

TotalRows ==
    Cardinality(UNION { { << n, i >> : i \in 1..Len(table_rows[n]) } : n \in DOMAIN table_rows })

\* SrimDB::new
Init ==
    /\ tables = DataDBNew.tables
    /\ table_rows = DataDBNew.table_rows
    /\ functions = DataDBNew.functions
    /\ op = NoOp
    /\ out = NoOut
    /\ added = EmptyMap

Store(db) ==
    /\ tables' = db.tables
    /\ table_rows' = db.table_rows
    /\ functions' = db.functions

\* SrimDB::apply(Delta::CreateTable(t)), t among Inputs
CreateTable(Inputs) ==
    /\ op = NoOp
    /\ \E t \in Inputs :
          LET r == create_table(data_db, t) IN
          /\ Store(r.db)
          /\ op' = [op |-> "CreateTable", table |-> t]
          /\ out' = r.ret
          /\ added' = IF IsOk(r.ret) /\ t.name \notin DOMAIN added
                      THEN MapInsert(added, t.name, [table |-> t, rows |-> << >>])
                      ELSE added

\* SrimDB::apply(Delta::DropTable(name))
DropTable ==
    /\ op = NoOp
    /\ \E name \in TableNames :
          LET r == drop_table(data_db, name) IN
          /\ Store(r.db)
          /\ op' = [op |-> "DropTable", name |-> name]
          /\ out' = r.ret
          /\ added' = IF IsOk(r.ret) THEN MapRemove(added, name) ELSE added

\* SrimDB::apply(Delta::AddRow(name, row))
AddRow ==
    /\ op = NoOp
    /\ TotalRows < MaxRows
    /\ \E name \in TableNames, row \in RowInputs :
          LET r == add_row(data_db, name, row) IN
          /\ Store(r.db)
          /\ op' = [op |-> "AddRow", name |-> name, row |-> row]
          /\ out' = r.ret
          /\ added' = IF IsOk(r.ret) /\ name \in DOMAIN added
                      THEN [added EXCEPT ![name].rows = Append(@, row)]
                      ELSE added

\* SrimDB::apply(Delta::RemoveRow(name, row)): unimplemented!()
RemoveRow ==
    /\ op = NoOp
    /\ \E name \in TableNames, row \in RowInputs :
          op' = [op |-> "RemoveRow", name |-> name, row |-> row]
    /\ out' = Panic("not yet implemented")
    /\ UNCHANGED << tables, table_rows, functions, added >>

\* A query that consumes the rows it reads: every table is left empty.
Query_consuming(Inputs) ==
    /\ op = NoOp
    /\ \E q \in Inputs :
          /\ op' = [op |-> "Query", query |-> q]
          /\ out' = execute(q, data_db)
    /\ table_rows' = [n \in DOMAIN table_rows |-> << >>]
    /\ UNCHANGED << tables, functions, added >>

\* SrimDB::query(q), q among Inputs
Query(Inputs) ==
    /\ op = NoOp
    /\ \E q \in Inputs :
          /\ op' = [op |-> "Query", query |-> q]
          /\ out' = execute(q, data_db)
    /\ UNCHANGED << tables, table_rows, functions, added >>

\* The caller takes the result; the next call can be made.
Return ==
    /\ op # NoOp
    /\ op' = NoOp
    /\ out' = NoOut
    /\ UNCHANGED << tables, table_rows, functions, added >>

\* The store: both tables, a few queries.
Next ==
    \/ CreateTable(TableInputs)
    \/ DropTable
    \/ AddRow
    \/ RemoveRow
    \/ Query(StoreQueries)
    \/ Return

Spec == Init /\ [][Next]_vars

\* The evaluator: every query of QueryInputs over a store whose only table
\* is "T".
NextQuery ==
    \/ CreateTable({T_ab, T_a})
    \/ DropTable
    \/ AddRow
    \/ RemoveRow
    \/ Query(QueryInputs)
    \/ Return

SpecQuery == Init /\ [][NextQuery]_vars

(***************************************************************************)
(* The value layer on its own: Value::binop_add, the built-in functions    *)
(* through Function::call, and FunctionCall::resolve_args, each applied to *)
(* arguments drawn from the sets below.  The database stays as             *)
(* constructed.                                                            *)
(***************************************************************************)
\* Every Boolean, every integer of either type, some reals, texts and blobs.
ValueInputs ==
    { Boolean(b) : b \in BOOLEAN }
    \cup { Unsigned(n) : n \in 0..UMax }
    \cup { Signed(n) : n \in IMin..IMax }
    \cup { Real(0), Real(1), Real(0 - 1), RealNaN }
    \cup { Text(""), Text("x") }
    \cup { Blob(<< >>), Blob(<< 1 >>) }

\* Arguments of the built-in functions: up to three values.
ArgumentValues ==
    { Signed(2), Signed(3), Signed(0 - 4), S1, U1, Unsigned(UMax), Signed(IMax),
      Real(1), RealNaN, VTrue, Text("x") }
ArgumentInputs ==
    { << >> }
    \cup { << x >> : x \in ArgumentValues }
    \cup { << x, y >> : x \in ArgumentValues, y \in ArgumentValues }
    \cup { << x, y, z >> : x \in {Signed(2), S1, U1, RealNaN}, y \in ArgumentValues,
                          z \in {Signed(0 - 4), S1, Real(1), RealNaN, Text("x")} }

\* Calls handed to resolve_args, and the resolvers they are resolved with.
CallInputs ==
    ClosedCalls \cup OpenCalls
    \cup { FunctionCall("add", << ArgQueryField(qc), ArgQueryField(qa) >>),
           FunctionCall("add", << ArgQueryField(qa), ArgQueryField(qb) >>),
           FunctionCall("strict_eq",
               << ArgValue(VTrue),
                  ArgFunctionCall(FunctionCall("add",
                      << ArgFunctionCall(FunctionCall("add", << ArgQueryField(qa) >>)),
                         ArgQueryField(qb) >>)) >>) }
ResolverInputs ==
    { NoRowResolver,
      RowResolver(<< qTa, from_table(qb, "T") >>, << VTrue, S1 >>),
      RowResolver(<< qTa, from_table(qb, "T") >>, << S1 >>),
      RowResolver(<< qa, qa >>, << S1, S1 >>),
      RowResolver(<< qb >>, << Text("x") >>) }

\* Value::binop_add
BinopAdd ==
    /\ op = NoOp
    /\ \E x \in ValueInputs, y \in ValueInputs :
          /\ op' = [op |-> "binop_add", self |-> x, other |-> y]
          /\ out' = binop_add(x, y)
    /\ UNCHANGED << tables, table_rows, functions, added >>

\* Function::call of a registered function
CallFunction ==
    /\ op = NoOp
    /\ \E name \in DOMAIN functions, values \in ArgumentInputs :
          /\ op' = [op |-> "call", target |-> name, arguments |-> values]
          /\ out' = call(functions[name], values)
    /\ UNCHANGED << tables, table_rows, functions, added >>

\* FunctionCall::resolve_args
ResolveArgs ==
    /\ op = NoOp
    /\ \E fc \in CallInputs, resolve \in ResolverInputs :
          /\ op' = [op |-> "resolve_args", fc |-> fc, resolve |-> resolve]
          /\ out' = resolve_args(fc, resolve)
    /\ UNCHANGED << tables, table_rows, functions, added >>

NextValue ==
    \/ BinopAdd
    \/ CallFunction
    \/ ResolveArgs
    \/ Return

SpecValue == Init /\ [][NextValue]_vars

(***************************************************************************)
(* Properties.  In a state where the caller holds the result of a query,   *)
(* op.query is the query, out its result, and the database is the one the  *)
(* query ran against.                                                      *)
(***************************************************************************)
IsQuery(type) == op.op = "Query" /\ op.query.type = type

\* The operands of a binary query and the operand of a unary one.
Left == execute(op.query.q1, data_db)
Right == execute(op.query.q2, data_db)
Sub == execute(op.query.subquery, data_db)

\* The elements of seq at the indices in idx, in ascending order of index.
Pick(seq, idx) ==
    [k \in 1..Cardinality(idx) |->
        seq[CHOOSE i \in idx : Cardinality({j \in idx : j < i}) = k - 1]]

\* A row that is equal to itself (it holds no NaN).
SelfEqual(row) == RowEq(row, row)

SameNames(x, y) ==
    /\ Len(x.fields) = Len(y.fields)
    /\ \A i \in 1..Len(x.fields) : x.fields[i].field = y.fields[i].field

\* C1: when both operands of Union succeed and their field-name lists are
\* equal, Union succeeds with the left operand's schema and its rows are the
\* left operand's rows in order followed by the right operand's rows in
\* order, duplicates kept; when the lists differ it fails with
\* DifferentFields.
C1_Union ==
    (IsQuery("Union") /\ IsOk(Left) /\ IsOk(Right)) =>
        LET a == Left.val
            b == Right.val
        IN IF SameNames(a, b)
           THEN /\ IsOk(out)
                /\ out.val.fields = a.fields
                /\ Len(out.val.rows) = Len(a.rows) + Len(b.rows)
                /\ \A i \in 1..Len(a.rows) : out.val.rows[i] = a.rows[i]
                /\ \A i \in 1..Len(b.rows) : out.val.rows[Len(a.rows) + i] = b.rows[i]
           ELSE out = Err(DifferentFields)

\* A Union of a two-row table with a one-row result that repeats a row of
\* the table.
C1_Witness ==
    /\ IsQuery("Union") /\ IsOk(Left) /\ IsOk(Right) /\ IsOk(out)
    /\ Len(Left.val.rows) = 2 /\ Len(Right.val.rows) = 1
    /\ Left.val.rows[1] # Left.val.rows[2]
    /\ Right.val.rows[1] = Left.val.rows[1]
    /\ Left.val.fields # Right.val.fields

\* The rows of a that are value-equal to at least one row of b.
RowsIn(a, b) ==
    Pick(a.rows, {i \in 1..Len(a.rows) : \E j \in 1..Len(b.rows) : RowEq(a.rows[i], b.rows[j])})
\* The rows of a that are value-equal to no row of b.
RowsNotIn(a, b) ==
    Pick(a.rows, {i \in 1..Len(a.rows) : \A j \in 1..Len(b.rows) : ~RowEq(a.rows[i], b.rows[j])})

\* C2 as stated: Intersection keeps, in a's order, the rows of a value-equal
\* to a row of b; hence Intersection(a, a) has a's rows and Intersection(a,
\* Empty) has none; differing field-name lists fail with DifferentFields.
C2_Original ==
    (IsQuery("Intersection") /\ IsOk(Left) /\ IsOk(Right)) =>
        LET a == Left.val
            b == Right.val
        IN IF SameNames(a, b)
           THEN /\ IsOk(out)
                /\ out.val.fields = a.fields
                /\ out.val.rows = RowsIn(a, b)
                /\ (a = b => out.val.rows = a.rows)
                /\ (b.rows = << >> => out.val.rows = << >>)
           ELSE out = Err(DifferentFields)

\* C2, amended: as C2, but Intersection(a, a) has a's rows when every row of
\* a is equal to itself; a row holding a Real NaN is value-equal to no row,
\* itself included, and Intersection(a, a) drops it.
C2_Intersection ==
    (IsQuery("Intersection") /\ IsOk(Left) /\ IsOk(Right)) =>
        LET a == Left.val
            b == Right.val
        IN IF SameNames(a, b)
           THEN /\ IsOk(out)
                /\ out.val.fields = a.fields
                /\ out.val.rows = RowsIn(a, b)
                /\ (a = b =>
                      out.val.rows = Pick(a.rows, {i \in 1..Len(a.rows) : SelfEqual(a.rows[i])}))
                /\ ((a = b /\ \A i \in 1..Len(a.rows) : SelfEqual(a.rows[i]))
                      => out.val.rows = a.rows)
                /\ (b.rows = << >> => out.val.rows = << >>)
           ELSE out = Err(DifferentFields)

\* Intersection of a table holding the same row twice with a one-row result
\* holding that row: both copies are kept.
C2_Witness ==
    /\ IsQuery("Intersection") /\ IsOk(Left) /\ IsOk(Right) /\ IsOk(out)
    /\ Len(Left.val.rows) = 2 /\ Len(Right.val.rows) = 1
    /\ Len(out.val.rows) = 2
    /\ out.val.rows[1] = out.val.rows[2]

\* C3 as stated: Difference keeps, in a's order, the rows of a value-equal to
\* no row of b; hence Difference(a, a) has no rows and Difference(a, Empty)
\* has a's rows; differing field-name lists fail with DifferentFields.
C3_Original ==
    (IsQuery("Difference") /\ IsOk(Left) /\ IsOk(Right)) =>
        LET a == Left.val
            b == Right.val
        IN IF SameNames(a, b)
           THEN /\ IsOk(out)
                /\ out.val.fields = a.fields
                /\ out.val.rows = RowsNotIn(a, b)
                /\ (a = b => out.val.rows = << >>)
                /\ (b.rows = << >> => out.val.rows = a.rows)
           ELSE out = Err(DifferentFields)

\* C3, amended: as C3, but Difference(a, a) keeps exactly the rows of a that
\* are not equal to themselves (those holding a Real NaN), and so has no rows
\* when a holds no such row.
C3_Difference ==
    (IsQuery("Difference") /\ IsOk(Left) /\ IsOk(Right)) =>
        LET a == Left.val
            b == Right.val
        IN IF SameNames(a, b)
           THEN /\ IsOk(out)
                /\ out.val.fields = a.fields
                /\ out.val.rows = RowsNotIn(a, b)
                /\ (a = b =>
                      out.val.rows = Pick(a.rows, {i \in 1..Len(a.rows) : ~SelfEqual(a.rows[i])}))
                /\ ((a = b /\ \A i \in 1..Len(a.rows) : SelfEqual(a.rows[i]))
                      => out.val.rows = << >>)
                /\ (b.rows = << >> => out.val.rows = a.rows)
           ELSE out = Err(DifferentFields)

\* Difference of a table holding the same row twice and a one-row result
\* holding that row: the single occurrence removes both copies.
C3_Witness ==
    /\ IsQuery("Difference") /\ IsOk(Left) /\ IsOk(Right) /\ IsOk(out)
    /\ Len(Left.val.rows) = 2 /\ Len(Right.val.rows) = 1
    /\ RowEq(Left.val.rows[1], Right.val.rows[1])
    /\ RowEq(Left.val.rows[2], Right.val.rows[1])
    /\ out.val.rows = << >>

\* C4: Distinct keeps the schema and exactly the rows that are value-equal
\* to no earlier row, in order; applying Distinct to its own result changes
\* nothing, and Distinct(Distinct(q)) gives what Distinct(q) gives.
C4_Distinct ==
    (IsQuery("Distinct") /\ IsOk(Sub)) =>
        LET a == Sub.val IN
        /\ IsOk(out)
        /\ out.val.fields = a.fields
        /\ out.val.rows =
              Pick(a.rows, {i \in 1..Len(a.rows) :
                               \A j \in 1..(i - 1) : ~RowEq(a.rows[j], a.rows[i])})
        /\ distinct(out.val) = out
        /\ (op.query.subquery.type = "Distinct" => out = Sub)

\* Distinct(Distinct(q)) over a q of three rows whose first and last rows
\* are equal and whose middle row differs.
C4_Witness ==
    /\ IsQuery("Distinct") /\ op.query.subquery.type = "Distinct"
    /\ IsOk(out)
    /\ LET q == execute(op.query.subquery.subquery, data_db) IN
       /\ IsOk(q) /\ Len(q.val.rows) = 3
       /\ RowEq(q.val.rows[1], q.val.rows[3])
       /\ ~RowEq(q.val.rows[1], q.val.rows[2])
       /\ out.val.rows = << q.val.rows[1], q.val.rows[2] >>

\* The columns of result a that a field reference matches: equal names, and
\* the reference unqualified or the qualifiers equal.
Matches(a, qf) ==
    {i \in 1..Len(a.fields) :
        /\ a.fields[i].field = qf.field
        /\ (qf.table = None \/ a.fields[i].table = qf.table)}
TheMatch(a, qf) == CHOOSE i \in Matches(a, qf) : TRUE

\* C5: Project fails with NoSuchField for a requested field that matches no
\* column, or with AmbiguousField for one that matches several; when every
\* requested field matches one column, the result schema is the requested
\* fields in the requested order, the rows of q keep their number and order,
\* and each output row holds the values of the matched columns in the
\* requested order.
C5_Project ==
    (IsQuery("Project") /\ IsOk(Sub)) =>
        LET a == Sub.val
            fields == op.query.fields
            Unmatched == {k \in 1..Len(fields) : Matches(a, fields[k]) = {}}
            Ambiguous == {k \in 1..Len(fields) : Cardinality(Matches(a, fields[k])) > 1}
        IN IF Unmatched \cup Ambiguous # {}
           THEN /\ IsErr(out)
                /\ \/ \E k \in Unmatched : out.err = NoSuchField(fields[k])
                   \/ \E k \in Ambiguous : out.err = AmbiguousField(fields[k])
           ELSE /\ IsOk(out)
                /\ out.val.fields = fields
                /\ Len(out.val.rows) = Len(a.rows)
                /\ \A r \in 1..Len(a.rows) :
                      /\ Len(out.val.rows[r]) = Len(fields)
                      /\ \A k \in 1..Len(fields) :
                            out.val.rows[r][k] = a.rows[r][TheMatch(a, fields[k])]

\* Condition::test of the query's condition on row i of result a.
TestRow(a, i) ==
    test(op.query.condition, functions, RowResolver(a.fields, a.rows[i]))

\* C6: when the operand of Select succeeds and the condition evaluates to a
\* boolean on each of its rows, Select returns the operand's schema and
\* exactly the rows on which the condition is true, in order, duplicates
\* kept: all rows for the literal true, none for the literal false, and for
\* a field reference the rows whose value in that column is Boolean true.
C6_Select ==
    (IsQuery("Select") /\ IsOk(Sub)) =>
        LET a == Sub.val
            c == op.query.condition
        IN (\A i \in 1..Len(a.rows) : IsOk(TestRow(a, i))) =>
              /\ IsOk(out)
              /\ out.val.fields = a.fields
              /\ out.val.rows = Pick(a.rows, {i \in 1..Len(a.rows) : TestRow(a, i).val})
              /\ (c = CondValue(VTrue) => out.val.rows = a.rows)
              /\ (c = CondValue(VFalse) => out.val.rows = << >>)
              /\ ((c.cond = "QueryField" /\ a.rows # << >>) =>
                    out.val.rows =
                       Pick(a.rows, {i \in 1..Len(a.rows) :
                                       ValueEq(a.rows[i][TheMatch(a, c.qf)], VTrue)}))

\* Select by a field reference over a table whose first row holds Boolean
\* false in that column and whose second row holds Boolean true.
C6_Witness ==
    /\ IsQuery("Select") /\ IsOk(Sub) /\ IsOk(out)
    /\ op.query.condition.cond = "QueryField"
    /\ Len(Sub.val.rows) = 2
    /\ TestRow(Sub.val, 1) = Ok(FALSE)
    /\ TestRow(Sub.val, 2) = Ok(TRUE)
    /\ out.val.rows = << Sub.val.rows[2] >>

\* The value a condition reduces to on a row, before it is tested for being
\* a Boolean: the literal, the resolved field, or the applied call.
Reduce(c, fd, resolve) ==
    CASE c.cond = "Value" -> Ok(c.value)
      [] c.cond = "QueryField" -> Resolve(resolve, c.qf)
      [] c.cond = "FunctionCall" ->
           (LET r == resolve_args(c.fc, resolve) IN
            IF IsOk(r) THEN apply(r.val, fd) ELSE r)
ReduceRow(a, i) ==
    Reduce(op.query.condition, functions, RowResolver(a.fields, a.rows[i]))
NonBooleanOn(a, i) == IsOk(ReduceRow(a, i)) /\ ReduceRow(a, i).val.kind # "Boolean"
BooleanOn(a, i) == IsOk(ReduceRow(a, i)) /\ ReduceRow(a, i).val.kind = "Boolean"

\* C7 as stated: for every operand that succeeds, Select fails with
\* NotBoolean when its condition is a non-Boolean literal, or a field or
\* call that reduces to a non-Boolean value on the rows; a Boolean literal
\* reduces to itself.
C7_Original ==
    (IsQuery("Select") /\ IsOk(Sub)) =>
        LET a == Sub.val
            c == op.query.condition
        IN /\ (c.cond = "Value" /\ c.value.kind # "Boolean") => out = Err(NotBoolean)
           /\ (c.cond # "Value" /\ a.rows # << >>
                 /\ \A i \in 1..Len(a.rows) : NonBooleanOn(a, i)) => out = Err(NotBoolean)
           /\ (c.cond = "Value" /\ c.value.kind = "Boolean") =>
                 (IsOk(out) /\ out.val.rows = IF c.value.v THEN a.rows ELSE << >>)

\* C7, amended: for every operand that succeeds, Select fails with
\* NotBoolean when the condition reduces to a non-Boolean value on some row
\* and to a Boolean on every earlier row; over an operand without rows the
\* condition is never reduced and Select succeeds with no rows, whatever
\* the condition; a Boolean literal reduces to itself.
C7_Select ==
    (IsQuery("Select") /\ IsOk(Sub)) =>
        LET a == Sub.val
            c == op.query.condition
        IN /\ (\E i \in 1..Len(a.rows) :
                   /\ NonBooleanOn(a, i)
                   /\ \A j \in 1..(i - 1) : BooleanOn(a, j)) => out = Err(NotBoolean)
           /\ a.rows = << >> => out = Ok(a)
           /\ (c.cond = "Value" /\ c.value.kind = "Boolean") =>
                 (IsOk(out) /\ out.val.rows = IF c.value.v THEN a.rows ELSE << >>)

\* Select by a field reference over a two-row table: the first row holds
\* Boolean true in that column and passes, the second holds an integer.
C7_Witness ==
    /\ IsQuery("Select") /\ IsOk(Sub)
    /\ op.query.condition.cond = "QueryField"
    /\ Len(Sub.val.rows) = 2
    /\ ReduceRow(Sub.val, 1) = Ok(VTrue)
    /\ NonBooleanOn(Sub.val, 2)
    /\ out = Err(NotBoolean)

\* C8: every row stored for a table has as many values as the table has
\* fields, and every row of a result returned by a successful query has as
\* many values as the result has fields.
C8_RowArity ==
    /\ \A name \in DOMAIN table_rows :
          \A i \in 1..Len(table_rows[name]) :
             /\ table(data_db, name) # None
             /\ Len(table_rows[name][i]) = Len(table(data_db, name)[1].fields)
    /\ (op.op = "Query" /\ IsOk(out)) =>
          \A i \in 1..Len(out.val.rows) : Len(out.val.rows[i]) = Len(out.val.fields)

\* What C9 says of the result r of Table(name).
TableResult(name, r) ==
    IF name \notin DOMAIN added
    THEN IsErr(r) /\ r.err = NoSuchTable(name)
    ELSE /\ IsOk(r)
         /\ Len(r.val.fields) = Len(added[name].table.fields)
         /\ \A i \in 1..Len(r.val.fields) :
               /\ r.val.fields[i].table = Some(name)
               /\ r.val.fields[i].field = added[name].table.fields[i].name
         /\ r.val.rows = added[name].rows

\* C9: in every state reached by CreateTable, DropTable and AddRow calls,
\* Table(name) fails with NoSuchTable exactly when the table does not exist
\* (never created, or dropped since), and otherwise returns one
\* table-qualified field per declared column, in declaration order, and the
\* rows added since the table was created, in insertion order.
C9_Table ==
    /\ \A name \in TableNames : TableResult(name, execute(QTable(name), data_db))
    /\ IsQuery("Table") => TableResult(op.query.name, out)

\* Table(name) answered with two different rows in the order they were added.
C9_Witness ==
    /\ IsQuery("Table") /\ IsOk(out)
    /\ Len(out.val.rows) = 2
    /\ out.val.rows[1] # out.val.rows[2]
    /\ out.val.rows = added[op.query.name].rows

\* Does a call hold a field reference, at any depth?
RECURSIVE HasFieldReference(_)
HasFieldReference(fc) ==
    \E i \in 1..Len(fc.arguments) :
        \/ fc.arguments[i].arg = "QueryField"
        \/ fc.arguments[i].arg = "FunctionCall" /\ HasFieldReference(fc.arguments[i].fc)

\* C10: a query never aborts: its outcome is a QueryResult or a QueryError;
\* a FromFunctionCall whose call holds a field reference fails with an
\* error, and so does one whose target is not in the registry.
C10_NeverAborts ==
    op.op = "Query" =>
        /\ out.tag \in {"Ok", "Err"}
        /\ (op.query.type = "FromFunctionCall" /\ HasFieldReference(op.query.fc)) => IsErr(out)
        /\ (op.query.type = "FromFunctionCall" /\ op.query.fc.target \notin DOMAIN functions)
              => IsErr(out)

\* C11: a query leaves the table list, the stored rows and the function
\* registry as they were, whether it succeeds or fails, and executing the
\* same query again on the database it leaves gives the same outcome.
C11_QueryFrame ==
    [][op'.op = "Query" =>
          /\ tables' = tables
          /\ table_rows' = table_rows
          /\ functions' = functions
          /\ out' = execute(op'.query, data_db)
          /\ out' = execute(op'.query, data_db')]_vars

\* A failing query over a table holding two rows: the rows are still stored.
C11_Witness ==
    /\ op.op = "Query" /\ op.query = QSelect(CondValue(S1), QTable("T"))
    /\ out = Err(NotBoolean)
    /\ "T" \in DOMAIN table_rows
    /\ Len(table_rows["T"]) = 2

IsInteger(value) == value.kind \in {"Unsigned", "Signed"}

\* C12: binop_add of two integers never aborts, and the maximum Unsigned
\* value, or the maximum Signed value, plus any positive integer of either
\* type is that maximum.
C12_SaturatingAdd ==
    (op.op = "binop_add" /\ IsInteger(op.self) /\ IsInteger(op.other)) =>
        /\ IsOk(out)
        /\ (op.self = Unsigned(UMax) /\ op.other.v > 0) => out.val.v = UMax
        /\ (op.self = Signed(IMax) /\ op.other.v > 0) => out.val.v = IMax

\* The coercion lattice: the kind two kinds unify to, if any.
Unified(k1, k2) ==
    IF k1 = k2 THEN Some(k1)
    ELSE IF {k1, k2} = {"Unsigned", "Signed"} THEN Some("Signed")
    ELSE IF {k1, k2} \in {{"Unsigned", "Real"}, {"Signed", "Real"}} THEN Some("Real")
    ELSE None

\* C13: more_generic is symmetric and is the coercion lattice; when the
\* kinds of the operands unify, both casts to the unified kind succeed and
\* binop_add returns a value of that kind; when they do not, binop_add
\* fails with IncompatibleTypes.
C13_Unification ==
    op.op = "binop_add" =>
        LET k1 == kind(op.self)
            k2 == kind(op.other)
            g == more_generic(k1, k2)
        IN /\ g = more_generic(k2, k1)
           /\ g = Unified(k1, k2)
           /\ g # None =>
                 /\ IsOk(cast_to(op.self, g[1]))
                 /\ IsOk(cast_to(op.other, g[1]))
                 /\ IsOk(out)
                 /\ kind(out.val) = g[1]
           /\ g = None => out = Err(IncompatibleTypes)

\* An Unsigned added to a Real: the result is a Real.
C13_Witness ==
    /\ op.op = "binop_add"
    /\ kind(op.self) = "Unsigned" /\ kind(op.other) = "Real"
    /\ IsOk(out) /\ kind(out.val) = "Real"


\* C14: when from matches one column of q, Rename returns q's fields in
\* order with that column replaced by the unqualified field named to, every
\* other field unchanged, and q's rows; when from matches no column it fails
\* with NoSuchField, when it matches several with AmbiguousField.
C14_Rename ==
    (IsQuery("Rename") /\ IsOk(Sub)) =>
        LET a == Sub.val
            from == op.query.from
            m == Matches(a, from)
        IN IF m = {} THEN out = Err(NoSuchField(from))
           ELSE IF Cardinality(m) > 1 THEN out = Err(AmbiguousField(from))
           ELSE /\ IsOk(out)
                /\ Len(out.val.fields) = Len(a.fields)
                /\ \A i \in 1..Len(a.fields) :
                      out.val.fields[i] =
                         IF i \in m THEN [table |-> None, field |-> op.query.to]
                         ELSE a.fields[i]
                /\ out.val.rows = a.rows

\* Rename of the first column of a two-column table holding two rows: the
\* second column keeps its table qualifier.
C14_Witness ==
    /\ IsQuery("Rename") /\ IsOk(Sub) /\ IsOk(out)
    /\ Len(Sub.val.fields) = 2 /\ Len(Sub.val.rows) = 2
    /\ Sub.val.fields[1].table # None
    /\ out.val.fields[1] = [table |-> None, field |-> op.query.to]
    /\ out.val.fields[2] = Sub.val.fields[2]
    /\ out.val.fields[2].table # None

\* C15: a binary operator returns the error of its left operand whenever
\* that fails, and the error of its right operand when only that fails; a
\* unary operator returns the error of its operand; Select fails with the
\* error raised by testing the condition on a row, whatever rows passed
\* before it.
C15_ShortCircuit ==
    /\ (op.op = "Query" /\ IsBinary(op.query)) =>
          /\ IsErr(Left) => out = Left
          /\ (IsOk(Left) /\ IsErr(Right)) => out = Right
          /\ (IsErr(out) /\ out # Left /\ out # Right) =>
                (IsOk(Left) /\ IsOk(Right) /\ out = Err(DifferentFields))
    /\ (op.op = "Query" /\ IsUnary(op.query) /\ IsErr(Sub)) => out = Sub
    /\ (IsQuery("Select") /\ IsOk(Sub)) =>
          \A i \in 1..Len(Sub.val.rows) :
             (/\ IsErr(TestRow(Sub.val, i))
              /\ \A j \in 1..(i - 1) : IsOk(TestRow(Sub.val, j))) =>
                 out = TestRow(Sub.val, i)

\* Select over a two-row table by a call that is true on the first row and
\* fails with IncompatibleTypes on the second.
C15_Witness ==
    /\ IsQuery("Select") /\ IsOk(Sub)
    /\ Len(Sub.val.rows) = 2
    /\ TestRow(Sub.val, 1) = Ok(TRUE)
    /\ TestRow(Sub.val, 2) = Err(IncompatibleTypes)
    /\ out = Err(IncompatibleTypes)


\* The left fold of binop_add over the values rest, starting from acc.
RECURSIVE FoldAdd(_, _)
FoldAdd(acc, rest) ==
    IF rest = << >> THEN Ok(acc)
    ELSE LET r == binop_add(acc, Head(rest)) IN
         IF IsOk(r) THEN FoldAdd(r.val, Tail(rest)) ELSE r

\* C16: add fails with NotEnoughArguments without arguments; otherwise it
\* returns the left fold of binop_add over its arguments in order, a single
\* argument unchanged and the first failure of binop_add as the error;
\* FromFunctionCall over add(2, 3, -4) yields one row holding Signed 1.
C16_Add ==
    /\ (op.op = "call" /\ op.target = "add") =>
          LET values == op.arguments IN
          /\ values = << >> => out = Err(NotEnoughArguments(1))
          /\ Len(values) = 1 => out = Ok(values[1])
          /\ values # << >> => out = FoldAdd(values[1], Tail(values))
          /\ (Len(values) = 3 /\ IsOk(binop_add(values[1], values[2]))) =>
                out = binop_add(binop_add(values[1], values[2]).val, values[3])
    /\ execute(QFromFunctionCall(Fa,
                  FunctionCall("add", << ArgValue(Signed(2)), ArgValue(Signed(3)),
                                         ArgValue(Signed(0 - 4)) >>)), data_db)
          = Ok(QueryResult(<< QueryField("a") >>, << << Signed(1) >> >>))

\* add of 2, the largest Signed and -4: the fold saturates at the second
\* argument before it subtracts.
C16_Witness ==
    /\ op.op = "call" /\ op.target = "add"
    /\ op.arguments = << Signed(2), Signed(IMax), Signed(0 - 4) >>
    /\ out = Ok(Signed(IMax - 4))

\* C17: strict_eq never fails and returns a Boolean: true for fewer than
\* two arguments, and otherwise true exactly when every argument has the
\* kind of the first and is equal to it in value, without coercion.
C17_StrictEq ==
    (op.op = "call" /\ op.target = "strict_eq") =>
        LET values == op.arguments IN
        /\ IsOk(out) /\ kind(out.val) = "Boolean"
        /\ Len(values) < 2 => out.val.v
        /\ Len(values) >= 2 =>
              (out.val.v <=>
                  \A i \in 2..Len(values) :
                     /\ kind(values[i]) = kind(values[1])
                     /\ ValueEq(values[i], values[1]))

\* strict_eq of Unsigned 1 and Signed 1 is false.
C17_Witness ==
    /\ op.op = "call" /\ op.target = "strict_eq"
    /\ op.arguments = << U1, S1 >>
    /\ out = Ok(VFalse)

\* The field references of a call, in the order resolve_args meets them.
RECURSIVE FieldsOf(_)
FieldsOf(fc) ==
    LET RECURSIVE cat(_)
        cat(i) ==
            IF i > Len(fc.arguments) THEN << >>
            ELSE (CASE fc.arguments[i].arg = "QueryField" -> << fc.arguments[i].qf >>
                    [] fc.arguments[i].arg = "FunctionCall" -> FieldsOf(fc.arguments[i].fc)
                    [] OTHER -> << >>) \o cat(i + 1)
    IN cat(1)

\* Is rc the call fc with every field reference replaced by the value the
\* resolver gives it, and nothing else changed?
RECURSIVE Resolved(_, _, _)
Resolved(fc, rc, resolve) ==
    /\ rc.target = fc.target
    /\ Len(rc.arguments) = Len(fc.arguments)
    /\ \A i \in 1..Len(fc.arguments) :
          CASE fc.arguments[i].arg = "Value" -> rc.arguments[i] = fc.arguments[i]
            [] fc.arguments[i].arg = "FunctionCall" ->
                 /\ rc.arguments[i].arg = "FunctionCall"
                 /\ Resolved(fc.arguments[i].fc, rc.arguments[i].fc, resolve)
            [] fc.arguments[i].arg = "QueryField" ->
                 /\ rc.arguments[i].arg = "Value"
                 /\ Ok(rc.arguments[i].value) = Resolve(resolve, fc.arguments[i].qf)

\* C18: when resolve_args succeeds, the call it returns has the target and
\* the argument structure of the input, its literal arguments unchanged and
\* no field reference at any depth, so that applying it does not abort on
\* an unresolved field; it succeeds exactly when the resolver succeeds on
\* every field, and otherwise returns the outcome of the first field the
\* resolver fails on, and Condition::test returns it without applying the
\* call.
C18_ResolveArgs ==
    op.op = "resolve_args" =>
        LET fields == FieldsOf(op.fc)
            failing == {i \in 1..Len(fields) : ~IsOk(Resolve(op.resolve, fields[i]))}
        IN /\ IsOk(out) <=> failing = {}
           /\ IsOk(out) =>
                 /\ Resolved(op.fc, out.val, op.resolve)
                 /\ ~HasFieldReference(out.val)
                 /\ apply(out.val, functions) # Panic("Applying with unresolved query fields")
           /\ failing # {} =>
                 /\ out = Resolve(op.resolve,
                                  fields[CHOOSE i \in failing : \A j \in failing : i <= j])
                 /\ test(CondFunctionCall(op.fc), functions, op.resolve) = out

\* A call holding a field reference inside a nested call, resolved against
\* a row that has the field.
C18_Witness ==
    /\ op.op = "resolve_args" /\ IsOk(out)
    /\ \E i \in 1..Len(op.fc.arguments) :
          /\ op.fc.arguments[i].arg = "FunctionCall"
          /\ HasFieldReference(op.fc.arguments[i].fc)
          /\ ~HasFieldReference(out.val.arguments[i].fc)


\* C19: the names in the table list are pairwise distinct and are the keys
\* of the row map, so that for every name the schema lookup and the row
\* lookup agree and Table(name) never finds the rows of a listed table
\* missing.
C19_StoreConsistency ==
    /\ \A i \in 1..Len(tables), j \in 1..Len(tables) :
          i # j => tables[i].name # tables[j].name
    /\ { tables[i].name : i \in 1..Len(tables) } = DOMAIN table_rows
    /\ \A name \in TableNames :
          /\ (table(data_db, name) # None) <=> (all_rows(data_db, name) # None)
          /\ ~IsPanic(execute(QTable(name), data_db))

\* One of two tables has just been dropped; the other is still listed and
\* still has its rows.
C19_Witness ==
    /\ op.op = "DropTable" /\ IsOk(out)
    /\ Len(tables) = 1
    /\ tables[1].name # op.name
    /\ table_rows[tables[1].name] # << >>

\* Is there a table called name in the table list?
Exists(name) == \E i \in 1..Len(tables) : tables[i].name = name

\* C20: CreateTable for an existing name succeeds when the schema is the
\* existing one and fails with AddCannotModify when it is not; DropTable and
\* AddRow for a name that does not exist fail with NoSuchTable; in each of
\* these cases the table list and the stored rows are left as they were.
C20_Rejected ==
    [][op = NoOp =>
          /\ (op'.op = "CreateTable" /\ Exists(op'.table.name)) =>
                /\ out' = IF \E i \in 1..Len(tables) : tables[i] = op'.table
                           THEN Ok(<< >>)
                           ELSE Err(AddCannotModify(op'.table.name))
                /\ tables' = tables /\ table_rows' = table_rows
          /\ (op'.op \in {"DropTable", "AddRow"} /\ ~Exists(op'.name)) =>
                /\ out' = Err(NoSuchTable(op'.name))
                /\ tables' = tables /\ table_rows' = table_rows]_vars

\* A table that holds a row has been created again with its own schema.
C20_Witness ==
    /\ op.op = "CreateTable" /\ out = Ok(<< >>)
    /\ table_rows[op.table.name] # << >>
    /\ \E i \in 1..Len(tables) : tables[i] = op.table


====
